---------------------------- MODULE Spec2Model ----------------------------
(***************************************************************************)
(* The clamp utility of the article "Using the Clamp Function for Definite *)
(* Boundaries in JavaScript" (src/unnamed/part_001, lines 20-156): its two *)
(* published implementations, the three guards the article proposes, and   *)
(* the callers that invoke them.                                           *)
(*                                                                         *)
(* A JavaScript number is modelled as a record: a finite number (kind      *)
(* "num", an integer standing for a finite double), +Infinity / -Infinity  *)
(* (kind "inf", n the sign) or NaN (kind "nan").  The value a call that    *)
(* has not returned holds is undefined (kind "undef").  Negative zero and  *)
(* fractional doubles are not distinguished from the reals they denote.    *)
(***************************************************************************)
EXTENDS Integers, FiniteSets, Sequences

VARIABLES pc, impl, guarded, value, min, max, result, thrown

\* the modules of the article "ES Modules best practices" (src/src/pages/about.md):
\* counter holds every variable named `counter` (the module-level one and the
\* one of each createCounter() call), created the components that hold a
\* counter object; incs, decs, contributors and lastCall record the calls made
VARIABLES counter, created, incs, decs, contributors, lastCall

\* userProfile.js of the same article: heap holds the objects, userProfile
\* the reference the module variable holds, held the references to returned
\* objects that callers keep; lastOp records the last call
VARIABLES heap, userProfile, held, lastOp

\* descendStairs of the article on recursion (src/unnamed/part_001, lines
\* 521-536): status of the outermost call, start its argument, stepsLeft the
\* parameter of the innermost activation, depth the number of activations on
\* the call stack, console the lines written by console.log
VARIABLES status, start, stepsLeft, depth, console

clampVars == <<pc, impl, guarded, value, min, max, result, thrown>>
counterVars == <<counter, created, incs, decs, contributors, lastCall>>
profileVars == <<heap, userProfile, held, lastOp>>
stairsVars == <<status, start, stepsLeft, depth, console>>

vars == <<clampVars, counterVars, profileVars, stairsVars>>

---------------------------------------------------------------------------
(* Bounds of the model *)

\* finite numbers -MaxMag..MaxMag are drawn as arguments (with the article's numbers)
MaxMag == 2
\* number of callers
NumCallers == 2
\* interleaved callers draw their arguments from 0..ConcMag
ConcMag == 1
\* increments, and decrements, made on one counter between two resets
MaxCalls == 3
\* references to objects returned by getProfile() that callers keep
NumHolders == 1
\* activations the call stack holds before the engine throws RangeError
MaxStack == 11
\* descendStairs is started with an integer in -MaxStart..MaxStart
MaxStart == 12

Callers == 1..NumCallers

---------------------------------------------------------------------------
(* JavaScript numbers *)

Num(n) == [kind |-> "num", n |-> n]
NaN == [kind |-> "nan", n |-> 0]
Infinity == [kind |-> "inf", n |-> 1]
NegInfinity == [kind |-> "inf", n |-> -1]
Undefined == [kind |-> "undef", n |-> 0]

\* the numbers the article and its scenarios call clamp with
ExampleNumbers == {-5, 0, 5, 10, 15, 50, 100, 150}

FiniteNumbers == {Num(n) : n \in (-MaxMag..MaxMag) \cup ExampleNumbers}
Numbers == FiniteNumbers \cup {NaN, Infinity, NegInfinity}
ConcNumbers == {Num(n) : n \in 0..ConcMag}

\* isNaN(x)
isNaN(x) == x.kind = "nan"

\* isFinite taken for "is a number": true for Infinity and -Infinity
isFiniteAcceptsInfinity(x) == x.kind \in {"num", "inf"}

\* isFinite(x): false for NaN, Infinity and -Infinity
isFinite(x) == x.kind = "num"

InfSign(x) == IF x.kind = "inf" THEN x.n ELSE 0

\* a < b: false as soon as one operand is NaN
Lt(a, b) ==
    /\ ~isNaN(a)
    /\ ~isNaN(b)
    /\ \/ InfSign(a) < InfSign(b)
       \/ InfSign(a) = 0 /\ InfSign(b) = 0 /\ a.n < b.n

\* a > b
Gt(a, b) == Lt(b, a)

\* Math.max(a, b): NaN as soon as one operand is NaN
MathMax(a, b) == IF isNaN(a) \/ isNaN(b) THEN NaN ELSE IF Lt(a, b) THEN b ELSE a

\* Math.min(a, b): NaN as soon as one operand is NaN
MathMin(a, b) == IF isNaN(a) \/ isNaN(b) THEN NaN ELSE IF Lt(b, a) THEN b ELSE a

---------------------------------------------------------------------------
(* The two published implementations *)

\* Math.max and Math.min exchanged: Math.max(Math.min(value, min), max)
clampMaxMin(v, lo, hi) == MathMax(MathMin(v, lo), hi)

\* the lower bound forgotten: Math.min(value, max)
clampMinOnly(v, lo, hi) == MathMin(v, hi)

\* return Math.min(Math.max(value, min), max);
clampMinMax(v, lo, hi) == MathMin(MathMax(v, lo), hi)

\* the last statement returns max instead of value
clampSeqReturnMax(v, lo, hi) ==
    IF Lt(v, lo) THEN lo
    ELSE IF Gt(v, hi) THEN hi
    ELSE hi

\* the second parameter taken for the upper bound and the third for the lower
clampSeqBoundsSwapped(v, lo, hi) ==
    IF Lt(v, hi) THEN hi
    ELSE IF Gt(v, lo) THEN lo
    ELSE v

\* the two checks written in the other order: the upper bound is tested first
clampSeqUpperFirst(v, lo, hi) ==
    IF Gt(v, hi) THEN hi
    ELSE IF Lt(v, lo) THEN lo
    ELSE v

\* the last statement written `value;` without return: the call returns undefined
clampSeqMissingReturn(v, lo, hi) ==
    IF Lt(v, lo) THEN lo
    ELSE IF Gt(v, hi) THEN hi
    ELSE Undefined

\* if (value < min) return min; if (value > max) return max; return value;
clampSeq(v, lo, hi) ==
    IF Lt(v, lo) THEN lo
    ELSE IF Gt(v, hi) THEN hi
    ELSE v

clamp(i, v, lo, hi) == IF i = "seq" THEN clampSeq(v, lo, hi) ELSE clampMinMax(v, lo, hi)

Impls == {"minmax", "seq"}

---------------------------------------------------------------------------
(* Errors *)

NoError == [name |-> "none", message |-> ""]
Error(msg) == [name |-> "Error", message |-> msg]

---------------------------------------------------------------------------
(* The counters of about.md: what exists before any call *)

\* Component A, Component B, Component C
Components == {"A", "B", "C"}

\* the variables named `counter`: the one at module scope of the first
\* counter.js, and the one local to each call of createCounter
Cells == Components \cup {"module"}

NoCall == [by |-> "none", on |-> "none", op |-> "none", returned |-> 0,
           log |-> "", n |-> 0]

CountersInit ==
    /\ counter = [x \in Cells |-> 0]
    /\ created = {}
    /\ incs = [x \in Cells |-> 0]
    /\ decs = [x \in Cells |-> 0]
    /\ contributors = {}
    /\ lastCall = NoCall

---------------------------------------------------------------------------
(* userProfile.js of about.md: what exists before any call *)

\* the strings given as name and email
Strings == {"", "a", "b"}

Holders == 1..NumHolders

\* object references: the object userProfile holds, the objects the holders
\* keep, and one more for the object being created
Refs == 0..(NumHolders + 1)

\* no reference
Null == -1

\* { name: "", email: "" }
EmptyProfile == [name |-> "", email |-> ""]

\* let userProfile = { name: "", email: "" };
ProfileInit ==
    /\ heap = [r \in Refs |-> EmptyProfile]
    /\ userProfile = 0
    /\ held = [h \in Holders |-> Null]
    /\ lastOp = "none"

---------------------------------------------------------------------------
(* descendStairs: what exists before any call *)

StairsInit ==
    /\ status = "idle"
    /\ start = 0
    /\ stepsLeft = 0
    /\ depth = 0
    /\ console = <<>>

---------------------------------------------------------------------------
(* State *)

Init ==
    /\ CountersInit
    /\ ProfileInit
    /\ StairsInit
    /\ pc = [c \in Callers |-> "idle"]
    /\ impl = [c \in Callers |-> "seq"]
    /\ guarded = [c \in Callers |-> FALSE]
    /\ value = [c \in Callers |-> Undefined]
    /\ min = [c \in Callers |-> Undefined]
    /\ max = [c \in Callers |-> Undefined]
    /\ result = [c \in Callers |-> Undefined]
    /\ thrown = [c \in Callers |-> NoError]


---------------------------------------------------------------------------
(* Calls *)

\* clamp(v, lo, hi) is invoked by caller c: the arguments are bound to the
\* parameters of a new activation, which starts at `entry`
CallWith(c, V, I, G, entry) ==
    /\ pc[c] = "idle"
    /\ \E v \in V, lo \in V, hi \in V, i \in I, g \in G :
          /\ value' = [value EXCEPT ![c] = v]
          /\ min' = [min EXCEPT ![c] = lo]
          /\ max' = [max EXCEPT ![c] = hi]
          /\ impl' = [impl EXCEPT ![c] = i]
          /\ guarded' = [guarded EXCEPT ![c] = g]
          /\ pc' = [pc EXCEPT ![c] = IF g THEN "guardOrder" ELSE entry]
    /\ UNCHANGED <<result, thrown>>

\* a synchronous call on the single JavaScript thread: no other call is active
Call(c) ==
    /\ \A d \in Callers : pc[d] = "idle"
    /\ CallWith(c, Numbers, Impls, BOOLEAN, "body")

\* the guard written min >= max
orderViolatedOrEqual(lo, hi) == Gt(lo, hi) \/ lo = hi

\* min > max
orderViolated(lo, hi) == Gt(lo, hi)

\* if (min > max) throw new Error("Lower limit cannot be greater than upper limit");
GuardOrder(c) ==
    /\ pc[c] = "guardOrder"
    /\ IF orderViolated(min[c], max[c])
       THEN /\ thrown' = [thrown EXCEPT
                 ![c] = Error("Lower limit cannot be greater than upper limit")]
            /\ pc' = [pc EXCEPT ![c] = "threw"]
       ELSE /\ pc' = [pc EXCEPT ![c] = "guardNaN"]
            /\ UNCHANGED thrown
    /\ UNCHANGED <<impl, guarded, value, min, max, result>>

\* if (isNaN(value) || isNaN(min) || isNaN(max)) throw new Error("All inputs must be numbers");
GuardNaN(c) ==
    /\ pc[c] = "guardNaN"
    /\ IF isNaN(value[c]) \/ isNaN(min[c]) \/ isNaN(max[c])
       THEN /\ thrown' = [thrown EXCEPT ![c] = Error("All inputs must be numbers")]
            /\ pc' = [pc EXCEPT ![c] = "threw"]
       ELSE /\ pc' = [pc EXCEPT ![c] = "guardFinite"]
            /\ UNCHANGED thrown
    /\ UNCHANGED <<impl, guarded, value, min, max, result>>

\* if (!isFinite(value) || !isFinite(min) || !isFinite(max)) throw new Error("Inputs cannot be infinite");
GuardFinite(c) ==
    /\ pc[c] = "guardFinite"
    /\ IF ~isFinite(value[c]) \/ ~isFinite(min[c]) \/ ~isFinite(max[c])
       THEN /\ thrown' = [thrown EXCEPT ![c] = Error("Inputs cannot be infinite")]
            /\ pc' = [pc EXCEPT ![c] = "threw"]
       ELSE /\ pc' = [pc EXCEPT ![c] = "body"]
            /\ UNCHANGED thrown
    /\ UNCHANGED <<impl, guarded, value, min, max, result>>

\* the body of clamp, run to completion
Body(c) ==
    /\ pc[c] = "body"
    /\ result' = [result EXCEPT ![c] = clamp(impl[c], value[c], min[c], max[c])]
    /\ pc' = [pc EXCEPT ![c] = "done"]
    /\ UNCHANGED <<impl, guarded, value, min, max, thrown>>

\* the caller has taken the returned value (or caught the error): the
\* activation is gone and the caller may call again
Return(c) ==
    /\ pc[c] \in {"done", "threw"}
    /\ pc' = [pc EXCEPT ![c] = "idle"]
    /\ impl' = [impl EXCEPT ![c] = "seq"]
    /\ guarded' = [guarded EXCEPT ![c] = FALSE]
    /\ value' = [value EXCEPT ![c] = Undefined]
    /\ min' = [min EXCEPT ![c] = Undefined]
    /\ max' = [max EXCEPT ![c] = Undefined]
    /\ result' = [result EXCEPT ![c] = Undefined]
    /\ thrown' = [thrown EXCEPT ![c] = NoError]

Next ==
    \E c \in Callers :
        \/ Call(c) /\ UNCHANGED <<counterVars, profileVars, stairsVars>>
        \/ GuardOrder(c) /\ UNCHANGED <<counterVars, profileVars, stairsVars>>
        \/ GuardNaN(c) /\ UNCHANGED <<counterVars, profileVars, stairsVars>>
        \/ GuardFinite(c) /\ UNCHANGED <<counterVars, profileVars, stairsVars>>
        \/ Body(c) /\ UNCHANGED <<counterVars, profileVars, stairsVars>>
        \/ Return(c) /\ UNCHANGED <<counterVars, profileVars, stairsVars>>

Spec == Init /\ [][Next]_vars

---------------------------------------------------------------------------
(* Interleaved callers of the sequential bound checks, one statement a step *)

\* the parameter `value` of c's activation, read as a module-level variable
\* that every activation shares
ValueOfShared(c) == value[CHOOSE d \in Callers : pc[d] # "idle"]

\* the parameter `value` of c's own activation
ValueOf(c) == value[c]

\* a call that starts whatever the other callers are doing
ConcCall(c) == CallWith(c, ConcNumbers, {"seq"}, {FALSE}, "L54")

\* if (value < min) { return min; }
CheckMin(c) ==
    /\ pc[c] = "L54"
    /\ IF Lt(ValueOf(c), min[c])
       THEN /\ result' = [result EXCEPT ![c] = min[c]]
            /\ pc' = [pc EXCEPT ![c] = "done"]
       ELSE /\ pc' = [pc EXCEPT ![c] = "L58"]
            /\ UNCHANGED result
    /\ UNCHANGED <<impl, guarded, value, min, max, thrown>>

\* if (value > max) { return max; }
CheckMax(c) ==
    /\ pc[c] = "L58"
    /\ IF Gt(ValueOf(c), max[c])
       THEN /\ result' = [result EXCEPT ![c] = max[c]]
            /\ pc' = [pc EXCEPT ![c] = "done"]
       ELSE /\ pc' = [pc EXCEPT ![c] = "L62"]
            /\ UNCHANGED result
    /\ UNCHANGED <<impl, guarded, value, min, max, thrown>>

\* return value;
ReturnValue(c) ==
    /\ pc[c] = "L62"
    /\ result' = [result EXCEPT ![c] = ValueOf(c)]
    /\ pc' = [pc EXCEPT ![c] = "done"]
    /\ UNCHANGED <<impl, guarded, value, min, max, thrown>>

NextConc ==
    \E c \in Callers :
        \/ ConcCall(c) /\ UNCHANGED <<counterVars, profileVars, stairsVars>>
        \/ CheckMin(c) /\ UNCHANGED <<counterVars, profileVars, stairsVars>>
        \/ CheckMax(c) /\ UNCHANGED <<counterVars, profileVars, stairsVars>>
        \/ ReturnValue(c) /\ UNCHANGED <<counterVars, profileVars, stairsVars>>
        \/ Return(c) /\ UNCHANGED <<counterVars, profileVars, stairsVars>>

SpecConc == Init /\ [][NextConc]_vars


---------------------------------------------------------------------------
(* Vocabulary of the properties *)

\* a <= b
Leq(a, b) == ~isNaN(a) /\ ~isNaN(b) /\ ~Lt(b, a)

\* the call of c has returned a value
Returned(c) == pc[c] = "done"

\* the call of c has thrown
Threw(c) == pc[c] = "threw"

\* the result the contract states: the lower bound below it, the upper bound
\* above it, the value otherwise
Contract(v, lo, hi) == IF Lt(v, lo) THEN lo ELSE IF Gt(v, hi) THEN hi ELSE v

\* every argument of c's call is a finite number: not NaN, not +/-Infinity
AllFinite(c) == \A x \in {value[c], min[c], max[c]} : x.kind = "num"

SameArguments(c, d) == value[c] = value[d] /\ min[c] = min[d] /\ max[c] = max[d]

---------------------------------------------------------------------------
(* Properties *)

\* C1: with lowerBound <= upperBound, either implementation returns
\* lowerBound when value < lowerBound, upperBound when value > upperBound and
\* value itself otherwise.
C1_ClampContract ==
    \A c \in Callers :
        Returned(c) /\ Leq(min[c], max[c])
            => result[c] = Contract(value[c], min[c], max[c])

\* a Math.min/Math.max call has raised a value below the range to the lower bound
C1_Witness ==
    \E c \in Callers :
        /\ Returned(c) /\ impl[c] = "minmax"
        /\ Lt(min[c], max[c]) /\ Lt(value[c], min[c])
        /\ result[c] = min[c]

\* C2 as stated: for all value, lowerBound <= upperBound, the result r
\* satisfies lowerBound <= r <= upperBound.
C2_ResultInRangeForEveryValue ==
    \A c \in Callers :
        Returned(c) /\ Leq(min[c], max[c])
            => Leq(min[c], result[c]) /\ Leq(result[c], max[c])

\* C2, amended: for every value that is not NaN and lowerBound <= upperBound,
\* the result r satisfies lowerBound <= r <= upperBound.
C2_ResultInRange ==
    \A c \in Callers :
        Returned(c) /\ Leq(min[c], max[c]) /\ ~isNaN(value[c])
            => Leq(min[c], result[c]) /\ Leq(result[c], max[c])

\* a value above the range has been returned as a number inside it
C2_Witness ==
    \E c \in Callers :
        /\ Returned(c) /\ Lt(min[c], max[c]) /\ Gt(value[c], max[c])
        /\ Leq(min[c], result[c]) /\ Leq(result[c], max[c])

\* C3: whenever lowerBound <= value <= upperBound the call returns exactly
\* value, endpoints included.
C3_IdentityInside ==
    \A c \in Callers :
        Returned(c) /\ Leq(min[c], value[c]) /\ Leq(value[c], max[c])
            => result[c] = value[c]

\* the sequential version has returned a value strictly inside the range
C3_Witness ==
    \E c \in Callers :
        /\ Returned(c) /\ impl[c] = "seq"
        /\ Lt(min[c], value[c]) /\ Lt(value[c], max[c])
        /\ result[c] = value[c]

\* C4 as stated: for every value, min, max, clamping the result again with
\* the same bounds gives the result.
C4_IdempotentForEveryBounds ==
    \A c \in Callers :
        Returned(c)
            => clamp(impl[c], result[c], min[c], max[c]) = result[c]

\* C4, amended: clamping the result again with the same bounds gives the
\* result for every value, min, max, except under the sequential bound checks
\* when min > max.
C4_Idempotent ==
    \A c \in Callers :
        Returned(c) /\ ~(impl[c] = "seq" /\ Gt(min[c], max[c]))
            => clamp(impl[c], result[c], min[c], max[c]) = result[c]

\* a call has changed its value, and clamping the result again changes nothing
C4_Witness ==
    \E c \in Callers :
        /\ Returned(c) /\ Lt(min[c], max[c]) /\ Lt(value[c], min[c])
        /\ result[c] # value[c]
        /\ clamp(impl[c], result[c], min[c], max[c]) = result[c]

\* C5 as stated: for every min, max, clamp(min, min, max) is min and
\* clamp(max, min, max) is max.
C5_BoundsFixedForEveryBounds ==
    \A c \in Callers :
        Returned(c)
            => /\ value[c] = min[c] => result[c] = min[c]
               /\ value[c] = max[c] => result[c] = max[c]

\* C5, amended: for every min <= max, clamp(min, min, max) is min and
\* clamp(max, min, max) is max.
C5_BoundsFixed ==
    \A c \in Callers :
        Returned(c) /\ Leq(min[c], max[c])
            => /\ value[c] = min[c] => result[c] = min[c]
               /\ value[c] = max[c] => result[c] = max[c]

\* a call with value equal to the upper bound of a proper range has returned it
C5_Witness ==
    \E c \in Callers :
        /\ Returned(c) /\ Lt(min[c], max[c]) /\ value[c] = max[c]
        /\ result[c] = max[c]

\* C6 as stated: with lowerBound = upperBound = b the call returns b for every
\* value and raises no error.
C6_EqualBoundsForEveryValue ==
    \A c \in Callers :
        (Returned(c) \/ Threw(c)) /\ ~guarded[c]
        /\ Leq(min[c], max[c]) /\ min[c] = max[c]
            => Returned(c) /\ result[c] = min[c]

\* C6, amended: with lowerBound = upperBound = b the call returns b for every
\* value that is not NaN, and equal bounds raise no error: a guarded call
\* throws only for an infinite input.
C6_EqualBounds ==
    \A c \in Callers :
        (Returned(c) \/ Threw(c))
        /\ Leq(min[c], max[c]) /\ min[c] = max[c] /\ ~isNaN(value[c])
            => /\ Returned(c) => result[c] = min[c]
               /\ Threw(c) => thrown[c] = Error("Inputs cannot be infinite")
               /\ AllFinite(c) => Returned(c)

\* clamp(5, 10, 10) has returned 10 under the three guards
C6_Witness ==
    \E c \in Callers :
        /\ Returned(c) /\ guarded[c]
        /\ value[c] = Num(5) /\ min[c] = Num(10) /\ max[c] = Num(10)
        /\ result[c] = Num(10)

\* C7: clamp(50, 0, 100) is 50, clamp(-5, 0, 100) is 0 and
\* clamp(150, 0, 100) is 100.
C7_Scenarios ==
    \A c \in Callers :
        Returned(c) /\ min[c] = Num(0) /\ max[c] = Num(100)
            => /\ value[c] = Num(50) => result[c] = Num(50)
               /\ value[c] = Num(-5) => result[c] = Num(0)
               /\ value[c] = Num(150) => result[c] = Num(100)

\* clamp(-5, 0, 100) has returned 0
C7_Witness ==
    \E c \in Callers :
        /\ Returned(c)
        /\ value[c] = Num(-5) /\ min[c] = Num(0) /\ max[c] = Num(100)
        /\ result[c] = Num(0)

\* the activation of d: its parameters, its position and what it returned
Activation(d) == <<pc[d], value[d], min[d], max[d], result[d], thrown[d]>>

\* C8: two calls with equal arguments return equal results whatever calls
\* came before or in between, and a step of one call changes nothing of
\* another call.
C8_ReferentiallyTransparent ==
    /\ [](\A c \in Callers, d \in Callers :
            Returned(c) /\ Returned(d) /\ SameArguments(c, d)
                => result[c] = result[d])
    /\ [][\A c \in Callers, d \in Callers :
            c # d /\ Activation(c)' # Activation(c)
                => Activation(d)' = Activation(d)]_vars

\* two callers hold the results of calls with the same arguments, which
\* clamped the value
C8_Witness ==
    \E c \in Callers, d \in Callers :
        /\ c # d /\ Returned(c) /\ Returned(d) /\ SameArguments(c, d)
        /\ Gt(value[c], max[c]) /\ Leq(min[c], max[c])
        /\ result[c] = result[d]

\* C9: under every interleaving of the callers' statements, a call returns
\* what the call run alone to completion returns on its own arguments.
C9_InterleavingFree ==
    \A c \in Callers :
        Returned(c) => result[c] = clampSeq(value[c], min[c], max[c])

\* a call has returned while another caller, with other arguments, is
\* between two statements of its own call
C9_Witness ==
    \E c \in Callers, d \in Callers :
        /\ c # d /\ Returned(c) /\ pc[d] \in {"L58", "L62"}
        /\ ~SameArguments(c, d) /\ value[c] # value[d]
        /\ result[c] = clampSeq(value[c], min[c], max[c])

\* C10: the only failure is an Error, thrown only when lowerBound >
\* upperBound or an input is not finite; a guarded call on finite inputs with
\* lowerBound <= upperBound returns the clamped value, and a guarded call
\* whose check fails throws and returns no number.
C10_InvalidArgumentOnly ==
    \A c \in Callers :
        /\ thrown[c] \in {NoError} \cup
              {Error(m) : m \in {"Lower limit cannot be greater than upper limit",
                                 "All inputs must be numbers",
                                 "Inputs cannot be infinite"}}
        /\ Threw(c) <=> thrown[c] # NoError
        /\ Threw(c) => /\ Gt(min[c], max[c]) \/ ~AllFinite(c)
                       /\ result[c] = Undefined
        /\ (Returned(c) \/ Threw(c)) /\ guarded[c]
              => IF AllFinite(c) /\ Leq(min[c], max[c])
                 THEN /\ Returned(c)
                      /\ result[c] = Contract(value[c], min[c], max[c])
                 ELSE Threw(c)

\* a guarded call with ordered bounds has thrown on an infinite input
C10_Witness ==
    \E c \in Callers :
        /\ Threw(c) /\ guarded[c] /\ Leq(min[c], max[c])
        /\ value[c] = Infinity
        /\ thrown[c] = Error("Inputs cannot be infinite")
        /\ result[c] = Undefined


---------------------------------------------------------------------------
(* The two implementations compared, and the edge cases of the article *)

\* the implementation a call did not use
OtherImpl(i) == IF i = "seq" THEN "minmax" ELSE "seq"

NoNaN(c) == ~isNaN(value[c]) /\ ~isNaN(min[c]) /\ ~isNaN(max[c])

\* C11: for every value, min, max with min <= max and no NaN, what one
\* implementation returns is what the other implementation returns.
C11_ImplementationsAgree ==
    \A c \in Callers :
        Returned(c) /\ NoNaN(c) /\ Leq(min[c], max[c])
            => result[c] = clamp(OtherImpl(impl[c]), value[c], min[c], max[c])

\* a Math.min/Math.max call has lowered a value above the range to the
\* upper bound, as the sequential checks do
C11_Witness ==
    \E c \in Callers :
        /\ Returned(c) /\ impl[c] = "minmax" /\ NoNaN(c)
        /\ Lt(min[c], max[c]) /\ Gt(value[c], max[c])
        /\ result[c] = max[c]
        /\ clampSeq(value[c], min[c], max[c]) = max[c]

\* C12: without NaN the two implementations return the same result exactly
\* when min <= max or value >= min; with min > max the Math.min/Math.max
\* version returns max and the sequential version returns min when
\* value < min and max otherwise.
C12_AgreeExactlyWhen ==
    \A c \in Callers :
        Returned(c) /\ NoNaN(c)
            => /\ (result[c] = clamp(OtherImpl(impl[c]), value[c], min[c], max[c]))
                    <=> (Leq(min[c], max[c]) \/ Leq(min[c], value[c]))
               /\ Gt(min[c], max[c]) /\ impl[c] = "minmax" => result[c] = max[c]
               /\ Gt(min[c], max[c]) /\ impl[c] = "seq"
                    => result[c] = IF Lt(value[c], min[c]) THEN min[c] ELSE max[c]

\* the sequential clamp(10, 15, 5) has returned 15, where Math.min/Math.max
\* returns 5
C12_Witness ==
    \E c \in Callers :
        /\ Returned(c) /\ impl[c] = "seq"
        /\ value[c] = Num(10) /\ min[c] = Num(15) /\ max[c] = Num(5)
        /\ result[c] = Num(15)
        /\ clampMinMax(value[c], min[c], max[c]) = Num(5)

\* C13: without guards clamp(NaN, 0, 10) returns NaN, and clamp(5, m, 10)
\* with a NaN lower bound m returns NaN.
C13_NaNPropagates ==
    \A c \in Callers :
        Returned(c) /\ ~guarded[c]
            => /\ isNaN(value[c]) /\ min[c] = Num(0) /\ max[c] = Num(10)
                    => isNaN(result[c])
               /\ value[c] = Num(5) /\ isNaN(min[c]) /\ max[c] = Num(10)
                    => isNaN(result[c])

\* C14: with lower bound -Infinity and upper bound +Infinity the unguarded
\* clamp returns every finite value unchanged.
C14_InfiniteBoundsIdentity ==
    \A c \in Callers :
        Returned(c) /\ ~guarded[c]
        /\ min[c] = NegInfinity /\ max[c] = Infinity /\ value[c].kind = "num"
            => result[c] = value[c]

\* the sequential clamp(50, -Infinity, Infinity) has returned 50
C14_Witness ==
    \E c \in Callers :
        /\ Returned(c) /\ ~guarded[c] /\ impl[c] = "seq"
        /\ value[c] = Num(50) /\ min[c] = NegInfinity /\ max[c] = Infinity
        /\ result[c] = Num(50)

\* C15: for all value, min, max without NaN, min > max included, the result
\* is one of the three arguments.
C15_ResultIsAnArgument ==
    \A c \in Callers :
        Returned(c) /\ NoNaN(c) => result[c] \in {value[c], min[c], max[c]}

\* a call with min > max and a value between the two has returned one of them
C15_Witness ==
    \E c \in Callers :
        /\ Returned(c) /\ NoNaN(c) /\ Gt(min[c], max[c])
        /\ Lt(value[c], min[c]) /\ Gt(value[c], max[c])
        /\ result[c] \in {min[c], max[c]}

\* C16: for fixed bounds min <= max, clamp does not decrease when its value
\* grows: whatever v2 >= value is clamped with the same bounds, the result
\* of the call is <= the result for v2.
C16_Monotone ==
    \A c \in Callers :
        Returned(c) /\ Leq(min[c], max[c])
            => \A v2 \in Numbers :
                  Leq(value[c], v2)
                      => Leq(result[c], clamp(impl[c], v2, min[c], max[c]))

\* a call returned a value inside the range, and a larger value above the
\* range is clamped to a larger result
C16_Witness ==
    \E c \in Callers :
        /\ Returned(c) /\ Lt(min[c], value[c]) /\ Lt(value[c], max[c])
        /\ \E v2 \in Numbers :
              /\ Gt(v2, max[c])
              /\ Lt(result[c], clamp(impl[c], v2, min[c], max[c]))


---------------------------------------------------------------------------
(* counter.js with module-level state (about.md lines 129-151) and the    *)
(* components that import it (lines 155-171)                               *)

\* counter-- that stops at zero
decrementedNotBelowZero(n) == IF n > 0 THEN n - 1 ELSE 0

\* counter++
incremented(n) == n + 1

\* counter--
decremented(n) == n - 1

\* every importing component gets a module instance, and a `counter`, of its own
ImportedCounterPerImporter(k) == k

\* the `counter` the functions imported by component k close over: the one
\* variable at module scope of counter.js
ImportedCounter(k) == "module"

\* the call made by component k on counter object or module `on`
Called(k, on, op, returned, log, n) ==
    lastCall' = [by |-> k, on |-> on, op |-> op, returned |-> returned,
                 log |-> log, n |-> n]

\* increment() called by component k
Increment(k) ==
    /\ incs["module"] < MaxCalls
    /\ counter' = [counter EXCEPT
          ![ImportedCounter(k)] = incremented(counter[ImportedCounter(k)])]
    /\ incs' = [incs EXCEPT !["module"] = @ + 1]
    /\ contributors' = contributors \cup {k}
    /\ Called(k, "module", "increment", 0, "Counter is now: ",
              counter'[ImportedCounter(k)])
    /\ UNCHANGED <<created, decs>>

\* decrement() called by component k
Decrement(k) ==
    /\ decs["module"] < MaxCalls
    /\ counter' = [counter EXCEPT
          ![ImportedCounter(k)] = decremented(counter[ImportedCounter(k)])]
    /\ decs' = [decs EXCEPT !["module"] = @ + 1]
    /\ contributors' = contributors \cup {k}
    /\ Called(k, "module", "decrement", 0, "Counter is now: ",
              counter'[ImportedCounter(k)])
    /\ UNCHANGED <<created, incs>>

\* reset() called by component k
Reset(k) ==
    /\ counter' = [counter EXCEPT ![ImportedCounter(k)] = 0]
    /\ incs' = [incs EXCEPT !["module"] = 0]
    /\ decs' = [decs EXCEPT !["module"] = 0]
    /\ contributors' = {}
    /\ Called(k, "module", "reset", 0, "Counter has been reset", 0)
    /\ UNCHANGED created

\* getCounter() called by component k
GetCounter(k) ==
    /\ Called(k, "module", "getCounter", counter[ImportedCounter(k)], "", 0)
    /\ UNCHANGED <<counter, created, incs, decs, contributors>>

NextModuleCounter ==
    \E k \in Components :
        \/ Increment(k) /\ UNCHANGED <<clampVars, profileVars, stairsVars>>
        \/ Decrement(k) /\ UNCHANGED <<clampVars, profileVars, stairsVars>>
        \/ Reset(k) /\ UNCHANGED <<clampVars, profileVars, stairsVars>>
        \/ GetCounter(k) /\ UNCHANGED <<clampVars, profileVars, stairsVars>>

SpecModuleCounter == Init /\ [][NextModuleCounter]_vars

---------------------------------------------------------------------------
(* counter.js with createCounter (about.md lines 176-199) and its usage   *)
(* (lines 203-225)                                                         *)

\* `counter` declared once at module scope, outside createCounter
CounterOfModuleScope(k) == "module"

\* the `let counter` of the createCounter() call made by component k: a new
\* variable for every call
CounterOf(k) == k

\* const counterK = createCounter();
CreateCounter(k) ==
    /\ k \notin created
    /\ created' = created \cup {k}
    /\ counter' = [counter EXCEPT ![CounterOf(k)] = 0]
    /\ incs' = [incs EXCEPT ![k] = 0]
    /\ decs' = [decs EXCEPT ![k] = 0]
    /\ Called(k, k, "createCounter", 0, "", 0)
    /\ UNCHANGED contributors

\* counterK.increment();
CounterIncrement(k) ==
    /\ k \in created
    /\ incs[k] < MaxCalls
    /\ counter' = [counter EXCEPT ![CounterOf(k)] = incremented(counter[CounterOf(k)])]
    /\ incs' = [incs EXCEPT ![k] = @ + 1]
    /\ Called(k, k, "increment", 0, "Counter is now: ", counter'[CounterOf(k)])
    /\ UNCHANGED <<created, decs, contributors>>

\* counterK.decrement();
CounterDecrement(k) ==
    /\ k \in created
    /\ decs[k] < MaxCalls
    /\ counter' = [counter EXCEPT ![CounterOf(k)] = decremented(counter[CounterOf(k)])]
    /\ decs' = [decs EXCEPT ![k] = @ + 1]
    /\ Called(k, k, "decrement", 0, "Counter is now: ", counter'[CounterOf(k)])
    /\ UNCHANGED <<created, incs, contributors>>

\* counterK.reset();
CounterReset(k) ==
    /\ k \in created
    /\ counter' = [counter EXCEPT ![CounterOf(k)] = 0]
    /\ incs' = [incs EXCEPT ![k] = 0]
    /\ decs' = [decs EXCEPT ![k] = 0]
    /\ Called(k, k, "reset", 0, "Counter has been reset.", 0)
    /\ UNCHANGED <<created, contributors>>

\* counterK.getCounter()
CounterGetCounter(k) ==
    /\ k \in created
    /\ Called(k, k, "getCounter", counter[CounterOf(k)], "", 0)
    /\ UNCHANGED <<counter, created, incs, decs, contributors>>

NextCounterFactory ==
    \E k \in Components :
        \/ CreateCounter(k) /\ UNCHANGED <<clampVars, profileVars, stairsVars>>
        \/ CounterIncrement(k) /\ UNCHANGED <<clampVars, profileVars, stairsVars>>
        \/ CounterDecrement(k) /\ UNCHANGED <<clampVars, profileVars, stairsVars>>
        \/ CounterReset(k) /\ UNCHANGED <<clampVars, profileVars, stairsVars>>
        \/ CounterGetCounter(k) /\ UNCHANGED <<clampVars, profileVars, stairsVars>>

SpecCounterFactory == Init /\ [][NextCounterFactory]_vars


---------------------------------------------------------------------------
(* Properties of the counters *)

\* what counterK.getCounter() returns
ReadingOf(k) == counter[CounterOf(k)]

\* C17: counters made by separate createCounter() calls are isolated: a call
\* of increment, decrement or reset on one counter leaves what getCounter()
\* of every other counter returns unchanged.
C17_CountersIsolated ==
    [][\A k \in Components :
          lastCall'.on # k => ReadingOf(k)' = ReadingOf(k)]_vars

\* after A: increment, increment; B: calls that leave it at 0; C: increment,
\* counter A still reads 2
C17_Witness ==
    /\ created = Components
    /\ lastCall.on = "C" /\ lastCall.op = "increment"
    /\ incs["A"] = 2 /\ decs["A"] = 0 /\ ReadingOf("A") = 2
    /\ ReadingOf("B") = 0
    /\ ReadingOf("C") = 1

\* C18: the components that import the module-level counter operate on one
\* counter: whatever the order of their increment, decrement and reset calls,
\* getCounter() called from any component returns the increments minus the
\* decrements of all components since the last reset by any of them.
C18_OneSharedCounter ==
    /\ \A k \in Components :
          counter[ImportedCounter(k)] = incs["module"] - decs["module"]
    /\ lastCall.op = "getCounter" /\ lastCall.on = "module"
          => lastCall.returned = incs["module"] - decs["module"]

\* component C reads 1 from getCounter() after two increments and one
\* decrement made by components A and B since the last reset
C18_Witness ==
    /\ lastCall.by = "C" /\ lastCall.op = "getCounter" /\ lastCall.on = "module"
    /\ contributors = {"A", "B"}
    /\ incs["module"] = 2 /\ decs["module"] = 1
    /\ lastCall.returned = 1

\* C19: getCounter() of a counter made by createCounter() is the number of
\* its increment calls minus the number of its decrement calls since it was
\* created or last reset; a fresh counter reads 0, reset yields 0, and the
\* counter goes below zero.
C19_CounterIsNetOfCalls ==
    /\ \A k \in created : ReadingOf(k) = incs[k] - decs[k]
    /\ lastCall.op \in {"createCounter", "reset"} /\ lastCall.on \in Components
          => ReadingOf(lastCall.on) = 0
    /\ lastCall.op = "getCounter" /\ lastCall.on \in Components
          => lastCall.returned = incs[lastCall.on] - decs[lastCall.on]
    /\ lastCall.op \in {"increment", "decrement"} /\ lastCall.on \in Components
          => lastCall.n = incs[lastCall.on] - decs[lastCall.on]

\* decrement on a counter that reads 0 has logged -1
C19_Witness ==
    /\ lastCall.op = "decrement" /\ lastCall.on = "B"
    /\ incs["B"] = 0 /\ decs["B"] = 1
    /\ ReadingOf("B") = -1 /\ lastCall.n = -1


---------------------------------------------------------------------------
(* userProfile.js (about.md lines 272-293) and callers that keep and      *)
(* modify the objects getProfile() returned                                *)

\* the objects reachable from the module variable or from a holder
Reachable(up, hd) == {up} \cup {hd[h] : h \in Holders}

\* an object no reference leads to is gone
Collect(hp, up, hd) ==
    [r \in Refs |-> IF r \in Reachable(up, hd) THEN hp[r] ELSE EmptyProfile]

\* the reference of a newly created object
NewRef == CHOOSE r \in Refs : r \notin Reachable(userProfile, held)

\* getProfile written `return userProfile;`: the stored object itself
ProfileReturnedIsStored(fresh) == userProfile

\* what getProfile returns: the object { ...userProfile } just created
ProfileReturned(fresh) == fresh

\* setProfile(name, email): the stored object is changed in place
SetProfile(name, email) ==
    /\ heap' = [heap EXCEPT ![userProfile] = [name |-> name, email |-> email]]
    /\ lastOp' = "setProfile"
    /\ UNCHANGED <<userProfile, held>>

\* holder h keeps getProfile(), dropping the object kept before
GetProfile(h) ==
    LET dropped == [held EXCEPT ![h] = Null]
        fresh == CHOOSE r \in Refs : r \notin Reachable(userProfile, dropped)
    IN /\ held' = [held EXCEPT ![h] = ProfileReturned(fresh)]
       /\ heap' = Collect([heap EXCEPT ![fresh] = heap[userProfile]],
                          userProfile, held')
       /\ lastOp' = "getProfile"
       /\ UNCHANGED userProfile

\* clearProfile(): userProfile is assigned a new empty object
ClearProfile ==
    /\ userProfile' = NewRef
    /\ heap' = Collect([heap EXCEPT ![NewRef] = EmptyProfile], userProfile', held)
    /\ lastOp' = "clearProfile"
    /\ UNCHANGED held

\* holder h assigns the name or the email of the object it keeps
ModifyReturned(h, field, s) ==
    /\ held[h] # Null
    /\ heap' = [heap EXCEPT ![held[h]] =
                  IF field = "name" THEN [@ EXCEPT !.name = s]
                  ELSE [@ EXCEPT !.email = s]]
    /\ lastOp' = "modify"
    /\ UNCHANGED <<userProfile, held>>

NextUserProfile ==
    \/ \E name \in Strings, email \in Strings :
          SetProfile(name, email) /\ UNCHANGED <<clampVars, counterVars, stairsVars>>
    \/ \E h \in Holders : GetProfile(h) /\ UNCHANGED <<clampVars, counterVars, stairsVars>>
    \/ ClearProfile /\ UNCHANGED <<clampVars, counterVars, stairsVars>>
    \/ \E h \in Holders, field \in {"name", "email"}, s \in Strings :
          ModifyReturned(h, field, s) /\ UNCHANGED <<clampVars, counterVars, stairsVars>>

SpecUserProfile == Init /\ [][NextUserProfile]_vars

\* what a call of getProfile() returns now: the contents of the stored object
StoredProfile == heap[userProfile]

\* C20: getProfile() returns a copy: modifying the name or email of a
\* returned object does not change what later getProfile() calls return; the
\* stored profile changes only through setProfile and clearProfile, and
\* after clearProfile getProfile returns empty name and email.
C20_ProfileCopied ==
    /\ [](\A h \in Holders : held[h] # userProfile)
    /\ [](lastOp = "clearProfile" => StoredProfile = EmptyProfile)
    /\ [][StoredProfile' # StoredProfile
            => lastOp' \in {"setProfile", "clearProfile"}]_vars

\* a holder has changed the name of the object it got, and getProfile()
\* still returns the profile that was set
C20_Witness ==
    /\ lastOp = "modify"
    /\ StoredProfile = [name |-> "a", email |-> "a"]
    /\ \E h \in Holders :
          /\ held[h] # Null
          /\ heap[held[h]] = [name |-> "b", email |-> "a"]


---------------------------------------------------------------------------
(* descendStairs (part_001 lines 522-532) and the call that starts it     *)
(* (line 535)                                                              *)

\* console.log("You have reached the bottom!")
Bottom == [msg |-> "You have reached the bottom!", n |-> 0]

\* console.log(`Stepping down... ${stepsLeft} steps left to go!`)
SteppingDown(k) == [msg |-> "Stepping down... steps left to go!", n |-> k]

\* the base case written stepsLeft <= 0
atBottomOrBelow(k) == k <= 0

\* stepsLeft === 0
atBottom(k) == k = 0

\* the recursive call written descendStairs(stepsLeft)
sameSteps(k) == k

\* stepsLeft - 1
oneStepDown(k) == k - 1

\* descendStairs(n), called from the top level
CallDescendStairs(n) ==
    /\ status = "idle"
    /\ status' = "running"
    /\ start' = n
    /\ stepsLeft' = n
    /\ depth' = 1
    /\ console' = <<>>

\* if (stepsLeft === 0) { console.log("You have reached the bottom!"); return; }
BaseCase ==
    /\ status = "running"
    /\ atBottom(stepsLeft)
    /\ console' = Append(console, Bottom)
    /\ status' = "returning"
    /\ UNCHANGED <<start, stepsLeft, depth>>

\* console.log(`Stepping down...`); descendStairs(stepsLeft - 1);
\* the call throws RangeError when the call stack is full, and nothing
\* catches it
RecursiveCase ==
    /\ status = "running"
    /\ ~atBottom(stepsLeft)
    /\ console' = Append(console, SteppingDown(stepsLeft))
    /\ IF depth < MaxStack
       THEN /\ stepsLeft' = oneStepDown(stepsLeft)
            /\ depth' = depth + 1
            /\ UNCHANGED status
       ELSE /\ status' = "overflow"
            /\ depth' = 0
            /\ UNCHANGED stepsLeft
    /\ UNCHANGED start

\* an activation returns to the one that called it, or to the top level
Unwind ==
    /\ status = "returning"
    /\ depth' = depth - 1
    /\ IF depth = 1
       THEN status' = "returned" /\ UNCHANGED stepsLeft
       ELSE stepsLeft' = stepsLeft + 1 /\ UNCHANGED status
    /\ UNCHANGED <<start, console>>

\* the program goes on after the call has returned or thrown
Finish ==
    /\ status \in {"returned", "overflow"}
    /\ status' = "idle"
    /\ start' = 0
    /\ stepsLeft' = 0
    /\ depth' = 0
    /\ console' = <<>>

\* the steps of a call that has started: synchronous code runs on
RunStairs ==
    /\ BaseCase \/ RecursiveCase \/ Unwind
    /\ UNCHANGED <<clampVars, counterVars, profileVars>>

NextStairs ==
    \/ \E n \in -MaxStart..MaxStart :
          CallDescendStairs(n) /\ UNCHANGED <<clampVars, counterVars, profileVars>>
    \/ BaseCase /\ UNCHANGED <<clampVars, counterVars, profileVars>>
    \/ RecursiveCase /\ UNCHANGED <<clampVars, counterVars, profileVars>>
    \/ Unwind /\ UNCHANGED <<clampVars, counterVars, profileVars>>
    \/ Finish /\ UNCHANGED <<clampVars, counterVars, profileVars>>

SpecStairs == Init /\ [][NextStairs]_vars /\ WF_vars(RunStairs)


---------------------------------------------------------------------------
(* Properties of descendStairs *)

\* what descendStairs(n) is to log: 'Stepping down' for n, n-1, ..., 1, then
\* the bottom line
ExpectedLog(n) ==
    [i \in 1..(n + 1) |-> IF i <= n THEN SteppingDown(n - i + 1) ELSE Bottom]

\* the call is over: it returned to the top level, or threw
Terminated == status \in {"returned", "overflow"}

\* the n + 1 activations of descendStairs(n) fit on the call stack
FitsStack(n) == n + 1 <= MaxStack

\* C21 as stated: for every integer n >= 0, descendStairs(n) ends having
\* logged 'Stepping down' for n, n-1, ..., 1 in that order and then the
\* bottom line, once, as its last action.
C21_TerminatesForEveryStart ==
    Terminated /\ start >= 0
        => status = "returned" /\ console = ExpectedLog(start)

\* C21, amended: for every integer n >= 0 whose n + 1 nested activations
\* fit on the call stack, descendStairs(n) terminates: it logs 'Stepping
\* down' for n, n-1, ..., 1 in that order, then the bottom line once as its
\* last action, and returns.
C21_TerminatesWithinStack ==
    /\ [](start >= 0 /\ FitsStack(start) /\ status = "running"
            => /\ Len(console) = start - stepsLeft
               /\ console = SubSeq(ExpectedLog(start), 1, Len(console)))
    /\ [](start >= 0 /\ FitsStack(start) /\ (Terminated \/ status = "returning")
            => status # "overflow" /\ console = ExpectedLog(start))
    /\ (start >= 0 /\ FitsStack(start) /\ status = "running") ~> (status = "returned")

\* descendStairs(10) has returned after logging 10, 9, ..., 1 and the bottom
C21_Witness ==
    /\ status = "returned" /\ start = 10
    /\ Len(console) = 11
    /\ console = ExpectedLog(10)

\* C22: started with a negative stepsLeft, descendStairs never reaches its
\* base case: stepsLeft decreases on every call, is never 0, and the bottom
\* line is never logged.
C22_NegativeNeverBottom ==
    /\ [](start < 0
            => /\ \A i \in 1..Len(console) : console[i] # Bottom
               /\ status \notin {"returning", "returned"}
               /\ status = "running" => stepsLeft < 0)
    /\ [][start < 0 /\ depth' > depth => stepsLeft' < stepsLeft]_vars

\* descendStairs(-1) has filled the call stack, logging a line in every
\* activation and never the bottom line
C22_Witness ==
    /\ start = -1 /\ status = "overflow"
    /\ Len(console) = MaxStack
    /\ \A i \in 1..Len(console) : console[i] = SteppingDown(-i)

=============================================================================
